---------------------------- MODULE Spec2Model ----------------------------
(***************************************************************************)
(* TenneTClient: the date-windowed retrieval pipeline (_monthly_data_call, *)
(* _api_call, parse_data) and the datetime reconstruction                  *)
(* (assign_date_column) of src/tennet/TenneTClient.py.                     *)
(*                                                                         *)
(* A calendar date (pd.Timestamp at midnight) is its ordinal day number,   *)
(* day 1 being 2023-01-01 (a Sunday).  A text date is a tuple of its       *)
(* fields in the order the text has them.                                  *)
(***************************************************************************)
EXTENDS Integers, Sequences, FiniteSets, TLC

VARIABLES
    pc,          \* position in _monthly_data_call / in the reconstruction run
    start_date,  \* argument of _monthly_data_call
    end_date,    \* argument of _monthly_data_call
    dates,       \* pd.date_range(start_date, end_date, freq='m')
    i,           \* the loop counter of range(len(dates)), before "i -= 1"
    requests,    \* the GETs sent so far: the params, and the status and the
                 \* number of <Record> elements of the answer
    data_list,   \* the parsed tables of the windows fetched so far
    result,      \* what the call returned (NoTable while nothing is returned)
    error,       \* the exception that ended the call ("none" while none)
    assigned,    \* whether assign_date_column was entered by the call
    df,          \* reconstruction run: the input table
    out,         \* reconstruction run: the outcome of the latest application
    prev,        \* reconstruction run: the outcome of the application before
    applied      \* reconstruction run: number of applications so far

vars == <<pc, start_date, end_date, dates, i, requests, data_list, result,
          error, assigned, df, out, prev, applied>>

---------------------------------------------------------------------------
(* Bounds of the model *)

\* start_date and end_date range over days 1..MaxDay (2023-01-01 onwards)
MaxDay == 70
\* a successful response carries 0..MaxRecords <Record> elements
MaxRecords == 1
\* column resolution: an input has 1..MaxRows rows
MaxRows == 1
\* column resolution: an input has DATE and at most this many other columns
MaxOptionalColumns == 3
\* PTU fallback: an input has 1..MaxPtuRows rows
MaxPtuRows == 2

---------------------------------------------------------------------------
(* The Gregorian calendar, as pandas computes it *)

IsLeap(y) == (y % 4 = 0 /\ y % 100 # 0) \/ y % 400 = 0

DaysInMonth(y, m) ==
    IF m = 2 THEN (IF IsLeap(y) THEN 29 ELSE 28)
    ELSE IF m \in {4, 6, 9, 11} THEN 30 ELSE 31

DaysInYear(y) == IF IsLeap(y) THEN 366 ELSE 365

RECURSIVE YMDFrom(_, _, _)
\* the date that is n days (n >= 1) into the month m of year y, or later
YMDFrom(y, m, n) ==
    IF n <= DaysInMonth(y, m) THEN <<y, m, n>>
    ELSE IF m = 12 THEN YMDFrom(y + 1, 1, n - DaysInMonth(y, m))
    ELSE YMDFrom(y, m + 1, n - DaysInMonth(y, m))

\* Timestamp -> (year, month, day)
YMD(d) == YMDFrom(2023, 1, d)

RECURSIVE DaysBeforeMonth(_, _)
DaysBeforeMonth(y, m) ==
    IF m = 1 THEN 0 ELSE DaysBeforeMonth(y, m - 1) + DaysInMonth(y, m - 1)

RECURSIVE DaysBeforeYear(_)
DaysBeforeYear(y) ==
    IF y <= 2023 THEN 0 ELSE DaysBeforeYear(y - 1) + DaysInYear(y - 1)

\* (year, month, day) -> Timestamp
Ordinal(ymd) == DaysBeforeYear(ymd[1]) + DaysBeforeMonth(ymd[1], ymd[2]) + ymd[3]

\* 0 = Sunday
Weekday(d) == (d - 1) % 7

\* the anchor of freq='m': the last day of a calendar month
IsMonthEnd(d) == YMD(d)[3] = DaysInMonth(YMD(d)[1], YMD(d)[2])

RECURSIVE SortedSeq(_)
\* the elements of a finite set of integers, ascending
SortedSeq(S) ==
    IF S = {} THEN <<>>
    ELSE LET m == CHOOSE x \in S : \A y \in S : x <= y
         IN <<m>> \o SortedSeq(S \ {m})

\* pd.date_range(start, end, freq='m'): the month ends within [start, end]
date_range(s, e) == SortedSeq({d \in s..e : IsMonthEnd(d)})

\* strftime("%d-%m-%Y"): the text fields (DD, MM, YYYY)
prepare_date_format(d) == <<YMD(d)[3], YMD(d)[2], YMD(d)[1]>>

---------------------------------------------------------------------------
(* Column names.  Python's "pattern in name" is a substring test.          *)

Chars(name) ==
    CASE name = "DATE"        -> <<"D","A","T","E">>
      [] name = "PERIOD_FROM" -> <<"P","E","R","I","O","D","_","F","R","O","M">>
      [] name = "PERIODE_VAN" -> <<"P","E","R","I","O","D","E","_","V","A","N">>
      [] name = "TIME"        -> <<"T","I","M","E">>
      [] name = "SEQ_NR"      -> <<"S","E","Q","_","N","R">>
      [] name = "PTU"         -> <<"P","T","U">>
      [] name = "HOUR"        -> <<"H","O","U","R">>
      [] name = "MINUTE"      -> <<"M","I","N","U","T","E">>
      [] name = "DATETIME"    -> <<"D","A","T","E","T","I","M","E">>

\* pat in name
Contains(name, pat) ==
    LET n == Chars(name)
        p == Chars(pat)
    IN \E k \in 1..(Len(n) - Len(p) + 1) : SubSeq(n, k, k + Len(p) - 1) = p

---------------------------------------------------------------------------
(* Tables.  A table is its set of column names and its rows; a row is its  *)
(* index label (key) and its cells, one per column.                        *)

NoTable == [columns |-> {}, rows |-> <<>>]

\* the outcome of a call: a table, or the exception that ended it
Returned(t) == [ok |-> TRUE, table |-> t, error |-> "none"]
Raised(e) == [ok |-> FALSE, table |-> NoTable, error |-> e]

\* a DATE cell: the text of the XML, or the datetime64 it is converted to
DateText(ymd) == [kind |-> "str", v |-> ymd]
DateTs(d) == [kind |-> "datetime64", v |-> d]

\* pd.to_datetime on a DATE cell: parses a text, keeps a datetime64
to_datetime_date(c) == IF c.kind = "str" THEN DateTs(Ordinal(c.v)) ELSE c

\* astype(str) of a datetime64 DATE cell: the fields of "YYYY-MM-DD"
astype_str(c) == YMD(c.v)

\* a naive local timestamp
Naive(d, m) == [valid |-> TRUE, day |-> d, min |-> m]
NotParsed == [valid |-> FALSE, day |-> 0, min |-> 0]

\* pd.to_datetime(date text + ' ' + "H:M"): hour 0..23 and minute 0..59, or
\* the text does not parse (ValueError)
to_datetime(ymd, hm) ==
    IF hm[1] \in 0..23 /\ hm[2] \in 0..59
    THEN Naive(Ordinal(ymd), hm[1] * 60 + hm[2])
    ELSE NotParsed

\* a localized timestamp: the instant in minutes (UTC) and the UTC offset;
\* NaT is the null marker
Aware(u, o) == [nat |-> FALSE, utc |-> u, off |-> o]
NaT == [nat |-> TRUE, utc |-> 0, off |-> 0]

\* the last Sunday of month m (March or October) of year y
LastSunday(y, m) ==
    Ordinal(<<y, m, CHOOSE k \in 25..31 : Weekday(Ordinal(<<y, m, k>>)) = 0>>)

\* tz_localize('CET', ambiguous='NaT', nonexistent='shift_forward') of one
\* naive timestamp: the clock goes 02:00 -> 03:00 on the last Sunday of
\* March and 03:00 -> 02:00 on the last Sunday of October
tz_localize(t) ==
    LET y      == YMD(t.day)[1]
        spring == LastSunday(y, 3)
        fall   == LastSunday(y, 10)
        gap    == t.day = spring /\ t.min \in 120..179
        fold   == t.day = fall /\ t.min \in 120..179
        summer == /\ t.day > spring \/ (t.day = spring /\ t.min >= 180)
                  /\ t.day < fall \/ (t.day = fall /\ t.min < 120)
    IN IF fold THEN NaT
       ELSE IF gap THEN Aware(t.day * 1440 + 180 - 120, 120)
       ELSE IF summer THEN Aware(t.day * 1440 + t.min - 120, 120)
       ELSE Aware(t.day * 1440 + t.min - 60, 60)

\* df[col] = series: the column takes the series' values, row by row (the
\* series is computed from df, so its index is df's and nothing is realigned)
WithColumn(t, col, series) ==
    [columns |-> t.columns \cup {col},
     rows |-> [j \in 1..Len(t.rows) |->
                 [key |-> t.rows[j].key,
                  cells |-> [c \in t.columns \cup {col} |->
                               IF c = col THEN series[j]
                               ELSE t.rows[j].cells[c]]]]]

RECURSIVE RowsHourNot25(_)
RowsHourNot25(rows) ==
    IF rows = <<>> THEN <<>>
    ELSE (IF Head(rows).cells["HOUR"] # 25 THEN <<Head(rows)>> ELSE <<>>)
         \o RowsHourNot25(Tail(rows))

\* df.query('HOUR != 25'): the rows whose HOUR is not 25, in their order
query_hour_not_25(t) == [columns |-> t.columns, rows |-> RowsHourNot25(t.rows)]

\* a set_index that keeps the column among the columns (drop=False)
set_index_keeping_column(t, col) ==
    [columns |-> t.columns,
     rows |-> [j \in 1..Len(t.rows) |->
                 [key |-> t.rows[j].cells[col], cells |-> t.rows[j].cells]]]

\* df.set_index(col): the column becomes the index and leaves the columns
set_index(t, col) ==
    [columns |-> t.columns \ {col},
     rows |-> [j \in 1..Len(t.rows) |->
                 [key |-> t.rows[j].cells[col],
                  cells |-> [c \in t.columns \ {col} |-> t.rows[j].cells[c]]]]]

\* pd.concat(data_list): the rows of the tables one after the other, each
\* keeping its index label
RECURSIVE concat(_)
concat(tables) ==
    IF tables = <<>> THEN NoTable
    ELSE LET rest == concat(Tail(tables))
         IN [columns |-> Head(tables).columns \cup rest.columns,
             rows |-> Head(tables).rows \o rest.rows]

---------------------------------------------------------------------------
(* assign_date_column *)

\* the columns whose name contains PERIOD_FROM or PERIODE_VAN
from_cols(t) ==
    {c \in t.columns : Contains(c, "PERIOD_FROM") \/ Contains(c, "PERIODE_VAN")}

\* the columns whose name contains TIME
time_col(t) == {c \in t.columns : Contains(c, "TIME")}

\* which branch of the if/elif chain is taken
Convention(t) ==
    IF Cardinality(from_cols(t)) = 1 THEN "PERIOD_FROM"
    ELSE IF Cardinality(time_col(t)) = 1 THEN "TIME"
    ELSE IF "SEQ_NR" \in t.columns THEN "SEQ_NR"
    ELSE "PTU"

\* pd.to_datetime(df.DATE.astype(str) + ' ' + df[col], format=...)
datetime_from_column(t, col) ==
    [j \in 1..Len(t.rows) |->
        to_datetime(astype_str(t.rows[j].cells["DATE"]), t.rows[j].cells[col])]

\* pd.to_datetime(df.DATE.astype(str) + ' ' + (df['SEQ_NR'] - 1).astype(str) + ':00', ...)
datetime_from_seq_nr(t) ==
    [j \in 1..Len(t.rows) |->
        to_datetime(astype_str(t.rows[j].cells["DATE"]),
                    <<t.rows[j].cells["SEQ_NR"] - 1, 0>>)]

\* df.PTU // 4
hour_of_ptu(p) == p \div 4

\* df.PTU % 4 * 15
minute_of_ptu(p) == (p % 4) * 15

\* the HOUR column left as derived
replace_24_0_omitted(h) == h

\* df.HOUR.replace(24, 0), on one value
replace_24_0(h) == IF h = 24 THEN 0 ELSE h

\* the PTU branch up to the query: HOUR and MINUTE are added, HOUR 24
\* becomes 0, the rows with HOUR 25 are left out
ptu_rows(t) ==
    LET t1 == WithColumn(t, "HOUR",
                  [j \in 1..Len(t.rows) |-> hour_of_ptu(t.rows[j].cells["PTU"])])
        t2 == WithColumn(t1, "MINUTE",
                  [j \in 1..Len(t.rows) |-> minute_of_ptu(t.rows[j].cells["PTU"])])
        t3 == WithColumn(t2, "HOUR",
                  [j \in 1..Len(t.rows) |-> replace_24_0(t2.rows[j].cells["HOUR"])])
    IN query_hour_not_25(t3)

\* pd.to_datetime(df.DATE.astype(str) + ' ' + df.HOUR.astype(str) + ':' + df.MINUTE.astype(str))
datetime_from_hour_minute(t) ==
    [j \in 1..Len(t.rows) |->
        to_datetime(astype_str(t.rows[j].cells["DATE"]),
                    <<t.rows[j].cells["HOUR"], t.rows[j].cells["MINUTE"]>>)]

\* df.DATETIME.dt.tz_localize(...), then df.set_index("DATETIME"); a text
\* that did not parse has raised ValueError before
localize_and_index(t, naive) ==
    IF \E j \in 1..Len(naive) : ~naive[j].valid THEN Raised("ValueError")
    ELSE Returned(set_index(
             WithColumn(t, "DATETIME",
                 [j \in 1..Len(naive) |-> tz_localize(naive[j])]),
             "DATETIME"))

\* the columns whose cells are texts; str + ' ' + df[col] raises TypeError
\* for a column of numbers or of timestamps
TextColumns == {"PERIOD_FROM", "PERIODE_VAN", "TIME"}

\* the PERIOD_FROM and the TIME branch, for the one matching column col
assign_from_column(t, col) ==
    IF col \notin TextColumns THEN Raised("TypeError")
    ELSE localize_and_index(t, datetime_from_column(t, col))

\* the inner function of assign_date_column
assign_datetime_column(t) ==
    CASE Convention(t) = "PERIOD_FROM" ->
            assign_from_column(t, CHOOSE c \in from_cols(t) : TRUE)
      [] Convention(t) = "TIME" ->
            assign_from_column(t, CHOOSE c \in time_col(t) : TRUE)
      [] Convention(t) = "SEQ_NR" ->
            localize_and_index(t, datetime_from_seq_nr(t))
      [] Convention(t) = "PTU" ->
            IF "PTU" \notin t.columns THEN Raised("AttributeError")
            ELSE localize_and_index(ptu_rows(t),
                                    datetime_from_hour_minute(ptu_rows(t)))

\* df.DATE = pd.to_datetime(df.DATE)
convert_date(t) ==
    WithColumn(t, "DATE",
        [j \in 1..Len(t.rows) |-> to_datetime_date(t.rows[j].cells["DATE"])])

assign_date_column(t) == assign_datetime_column(convert_date(t))

---------------------------------------------------------------------------
(* parse_data and _api_call *)

\* pd.read_xml(content, xpath='.//Record'): one row per <Record>, labelled
\* 0, 1, ...; ValueError when the xpath selects no node
parse_data(response) ==
    IF Len(response.records) = 0 THEN Raised("ValueError")
    ELSE Returned([columns |-> {"DATE", "PTU"},
                   rows |-> [j \in 1..Len(response.records) |->
                               [key |-> j - 1, cells |-> response.records[j]]]])

\* a raise_for_status that lets the client errors through
raise_for_status_5xx_only(status) == IF status >= 500 THEN "HTTPError" ELSE "none"

\* response.raise_for_status(): HTTPError for a 4xx or 5xx status
raise_for_status(status) == IF status >= 400 THEN "HTTPError" ELSE "none"

\* what the server may put in a <Record> of the answer to params: the
\* DATE of the window's first day and a PTU
ServerRecords(params) ==
    {[DATE |-> DateText(<<params.datefrom[3], params.datefrom[2], params.datefrom[1]>>),
      PTU |-> p] : p \in {96}}

RECURSIVE SeqsUpTo(_, _)
\* the sequences of at most n elements of S
SeqsUpTo(S, n) ==
    IF n = 0 THEN {<<>>}
    ELSE SeqsUpTo(S, n - 1) \cup
         {Append(q, x) : q \in {r \in SeqsUpTo(S, n - 1) : Len(r) = n - 1}, x \in S}

\* the answers the server may give to a GET with params
Responses(params) ==
    {[status |-> c, records |-> <<>>] : c \in {404, 500}} \cup
    {[status |-> 200, records |-> r] : r \in SeqsUpTo(ServerRecords(params), MaxRecords)}

---------------------------------------------------------------------------
(* _monthly_data_call *)

Init ==
    /\ pc = "date_range"
    /\ start_date \in 1..MaxDay
    /\ end_date \in start_date..MaxDay
    /\ dates = <<>>
    /\ i = 0
    /\ requests = <<>>
    /\ data_list = <<>>
    /\ result = NoTable
    /\ error = "none"
    /\ assigned = FALSE
    /\ df = NoTable
    /\ out = Raised("none")
    /\ prev = Raised("none")
    /\ applied = 0

\* self._obtain_data_from_website(params) and data_list.append(...): one
\* GET; raise_for_status or parse_data may end the call
Obtain(datefrom, dateto, next) ==
    \E resp \in Responses([datefrom |-> prepare_date_format(datefrom),
                            dateto |-> prepare_date_format(dateto)]) :
        /\ requests' = Append(requests,
                              [datefrom |-> prepare_date_format(datefrom),
                               dateto |-> prepare_date_format(dateto),
                               status |-> resp.status,
                               records |-> Len(resp.records)])
        /\ IF raise_for_status(resp.status) # "none"
           THEN /\ pc' = "error"
                /\ error' = raise_for_status(resp.status)
                /\ UNCHANGED data_list
           ELSE IF ~parse_data(resp).ok
           THEN /\ pc' = "error"
                /\ error' = parse_data(resp).error
                /\ UNCHANGED data_list
           ELSE /\ pc' = next
                /\ error' = error
                /\ data_list' = Append(data_list, parse_data(resp).table)

\* dates = pd.date_range(start_date, end_date, freq='m'); if len(dates) > 0
DateRange ==
    /\ pc = "date_range"
    /\ dates' = date_range(start_date, end_date)
    /\ pc' = IF Len(dates') > 0 THEN "loop" ELSE "single"
    /\ UNCHANGED <<start_date, end_date, i, requests, data_list, result, error,
                   assigned, df, out, prev, applied>>

\* one pass of "for i in range(len(dates))": with i the value before
\* "i -= 1", the window is [start_date, dates[0]] in the first pass and
\* [dates[i-1] + 1 day, dates[i]] afterwards (0-based)
LoopRequest ==
    /\ pc = "loop"
    /\ i < Len(dates)
    /\ Obtain(IF i = 0 THEN start_date ELSE dates[i] + 1,
              dates[i + 1],
              IF i + 1 < Len(dates) THEN "loop" ELSE "tail")
    /\ i' = i + 1
    /\ UNCHANGED <<start_date, end_date, dates, result, assigned, df, out,
                   prev, applied>>

\* after the loop: the window [dates[-1] + 1 day, end_date]
TailRequest ==
    /\ pc = "tail"
    /\ Obtain(dates[Len(dates)] + 1, end_date, "concat")
    /\ UNCHANGED <<start_date, end_date, dates, i, result, assigned, df, out,
                   prev, applied>>

\* no month end in the range: the window [start_date, end_date]
SingleRequest ==
    /\ pc = "single"
    /\ Obtain(start_date, end_date, "concat")
    /\ UNCHANGED <<start_date, end_date, dates, i, result, assigned, df, out,
                   prev, applied>>

\* return self.assign_date_column(pd.concat(data_list))
ConcatAssign ==
    /\ pc = "concat"
    /\ assigned' = TRUE
    /\ LET r == assign_date_column(concat(data_list))
       IN IF r.ok
          THEN /\ result' = r.table
               /\ pc' = "done"
               /\ error' = error
          ELSE /\ result' = result
               /\ pc' = "error"
               /\ error' = r.error
    /\ UNCHANGED <<start_date, end_date, dates, i, requests, data_list, df,
                   out, prev, applied>>

Next == DateRange \/ LoopRequest \/ TailRequest \/ SingleRequest \/ ConcatAssign

Spec == Init /\ [][Next]_vars

---------------------------------------------------------------------------
(* assign_date_column applied to a parsed table, and again to its result *)

\* the DATE texts of the inputs: an ordinary day, the day the clock goes
\* forward (2023-03-26) and the day it goes back (2023-10-29)
DateChoices == {<<2023, 1, 15>>, <<2023, 3, 26>>, <<2023, 10, 29>>}

\* "HH:MM" texts of PERIOD_FROM, PERIODE_VAN and TIME cells
TimeChoices == {<<0, 0>>, <<2, 30>>}

SeqNrChoices == {1, 3}

PtuChoices == {10, 96, 100}

\* PTU cells of the PTU-only inputs: 00:15, 02:15 and 02:30, the last
\* regular period 96, and the periods 97 and 100 of a 25-hour day
PtuFallbackChoices == {1, 9, 10, 96, 97, 100}

OptionalColumns == {"PERIOD_FROM", "PERIODE_VAN", "TIME", "SEQ_NR", "PTU"}

\* the choices for column c of a table with the columns cols: all of them,
\* or a single one when the table has no such column
ChoicesIf(c, cols, choices) ==
    IF c \in cols THEN choices ELSE {CHOOSE x \in choices : TRUE}

\* the rows over the columns cols
RowChoices(cols) ==
    {[c \in cols |->
        CASE c = "DATE" -> DateText(d)
          [] c = "PERIOD_FROM" -> pf
          [] c = "PERIODE_VAN" -> pv
          [] c = "TIME" -> tm
          [] c = "SEQ_NR" -> sq
          [] c = "PTU" -> pt] :
        d \in DateChoices,
        pf \in ChoicesIf("PERIOD_FROM", cols, TimeChoices),
        pv \in ChoicesIf("PERIODE_VAN", cols, TimeChoices),
        tm \in ChoicesIf("TIME", cols, TimeChoices),
        sq \in ChoicesIf("SEQ_NR", cols, SeqNrChoices),
        pt \in ChoicesIf("PTU", cols, PtuChoices)}

\* the column sets of the inputs: DATE and some of the other columns
ColumnSets ==
    {T \cup {"DATE"} : T \in {U \in SUBSET OptionalColumns :
                                 Cardinality(U) <= MaxOptionalColumns}}

\* a parsed table: the rows q over the columns cols, labelled 0, 1, ...
InputTable(cols, q) ==
    [columns |-> cols,
     rows |-> [j \in 1..Len(q) |-> [key |-> j - 1, cells |-> q[j]]]]

\* the variables of _monthly_data_call, which the reconstruction runs leave alone
NoCall ==
    /\ start_date = 1
    /\ end_date = 1
    /\ dates = <<>>
    /\ i = 0
    /\ requests = <<>>
    /\ data_list = <<>>
    /\ result = NoTable
    /\ error = "none"
    /\ assigned = FALSE

InitReconstruct ==
    /\ pc = "reconstruct"
    /\ NoCall
    /\ \E cols \in ColumnSets : \E n \in 1..MaxRows :
          \E q \in [1..n -> RowChoices(cols)] : df = InputTable(cols, q)
    /\ out = Raised("none")
    /\ prev = Raised("none")
    /\ applied = 0

\* the rows of a table that has DATE and PTU only
PtuRowChoices ==
    {[DATE |-> DateText(d), PTU |-> p] : d \in DateChoices, p \in PtuFallbackChoices}

InitPtu ==
    /\ pc = "reconstruct"
    /\ NoCall
    /\ \E n \in 1..MaxPtuRows :
          \E q \in [1..n -> PtuRowChoices] : df = InputTable({"DATE", "PTU"}, q)
    /\ out = Raised("none")
    /\ prev = Raised("none")
    /\ applied = 0

\* assign_date_column(df)
ApplyFirst ==
    /\ pc = "reconstruct"
    /\ applied = 0
    /\ out' = assign_date_column(df)
    /\ prev' = out
    /\ applied' = 1
    /\ UNCHANGED <<pc, start_date, end_date, dates, i, requests, data_list,
                   result, error, assigned, df>>

\* assign_date_column(the table it returned)
ApplyAgain ==
    /\ pc = "reconstruct"
    /\ applied = 1
    /\ out.ok
    /\ out' = assign_date_column(out.table)
    /\ prev' = out
    /\ applied' = 2
    /\ UNCHANGED <<pc, start_date, end_date, dates, i, requests, data_list,
                   result, error, assigned, df>>

NextReconstruct == ApplyFirst \/ ApplyAgain

SpecReconstruct == InitReconstruct /\ [][NextReconstruct]_vars

SpecPtu == InitPtu /\ [][NextReconstruct]_vars

---------------------------------------------------------------------------
(* The windows requested by _monthly_data_call *)

\* the day a "DD-MM-YYYY" parameter names
DayOfParam(p) == Ordinal(<<p[3], p[2], p[1]>>)

WindowFrom(k) == DayOfParam(requests[k].datefrom)
WindowTo(k) == DayOfParam(requests[k].dateto)

\* the calendar month boundaries between two days
MonthBoundaries(s, e) ==
    (YMD(e)[1] * 12 + YMD(e)[2]) - (YMD(s)[1] * 12 + YMD(s)[2])

\* C1 (as claimed): once every window is requested, the windows partition
\* [start_date, end_date]: each is non-empty, the first starts at
\* start_date, each next one starts the day after the one before ends, the
\* last ends at end_date, and every day lies in exactly one window.
C1_WindowsPartitionRange ==
    pc = "concat" =>
        /\ Len(requests) >= 1
        /\ WindowFrom(1) = start_date
        /\ WindowTo(Len(requests)) = end_date
        /\ \A k \in 1..Len(requests) : WindowFrom(k) <= WindowTo(k)
        /\ \A k \in 1..(Len(requests) - 1) : WindowFrom(k + 1) = WindowTo(k) + 1
        /\ \A d \in start_date..end_date :
              Cardinality({k \in 1..Len(requests) :
                              WindowFrom(k) <= d /\ d <= WindowTo(k)}) = 1

\* C2 (as claimed): once every window is requested, their number is one
\* plus the month boundaries between start_date and end_date, and a range
\* within one month is requested as the single window [start_date, end_date].
C2_OneWindowPerMonthCrossed ==
    pc = "concat" =>
        /\ Len(requests) = 1 + MonthBoundaries(start_date, end_date)
        /\ MonthBoundaries(start_date, end_date) = 0 =>
              /\ Len(requests) = 1
              /\ WindowFrom(1) = start_date
              /\ WindowTo(1) = end_date

\* C3: windows are requested in ascending date order, each after the one
\* before was fetched and parsed; a request answered with a failure status
\* is the last request of the call, the call has ended with the HTTP error,
\* assign_date_column was not entered and no table is returned.
C3_FailedWindowAbortsCall ==
    /\ \A k \in 1..(Len(requests) - 1) : WindowFrom(k) < WindowFrom(k + 1)
    /\ Len(data_list) <= Len(requests)
    /\ Len(requests) <= Len(data_list) + 1
    /\ \A k \in 1..Len(requests) :
          requests[k].status >= 400 =>
              /\ k = Len(requests)
              /\ pc = "error"
              /\ error = "HTTPError"
              /\ ~assigned
              /\ result = NoTable
              /\ Len(data_list) = k - 1

\* C3's case: the third window fails after two windows were fetched
C3_Witness ==
    /\ Len(requests) = 3
    /\ requests[3].status >= 400
    /\ Len(data_list) = 2
    /\ pc = "error"

\* C7 (as claimed): a one-day query whose answer holds no <Record> ends
\* without an error, and the table it returns has no rows.
C7_EmptyPayloadGivesEmptyTable ==
    (/\ start_date = end_date
     /\ Len(requests) = 1
     /\ requests[1].status = 200
     /\ requests[1].records = 0) =>
        /\ pc # "error"
        /\ error = "none"
        /\ pc = "done" => result.rows = <<>>

---------------------------------------------------------------------------
(* The table assign_date_column returns *)

\* the index of a table, as a sequence
Keys(t) == [j \in 1..Len(t.rows) |-> t.rows[j].key]

\* the local wall-clock minute (counted from day 0) of a localized timestamp
Wall(key) == key.utc + key.off

\* the timestamp that DATE text ymd and the "HH:MM" fields hm stand for
Stamp(ymd, hm) == tz_localize(to_datetime(ymd, hm))

\* C4 (as claimed): the rows of a returned table are in ascending order of
\* DATETIME (null markers aside), whatever the order of the input rows.
C4_RowsAscending ==
    (applied >= 1 /\ out.ok) =>
        \A j, k \in 1..Len(out.table.rows) :
            (j < k /\ ~out.table.rows[j].key.nat /\ ~out.table.rows[k].key.nat)
                => out.table.rows[j].key.utc <= out.table.rows[k].key.utc

\* C5 (as claimed): no two rows of a returned table have the same DATETIME;
\* an input that leads to a duplicate ends in an error instead.
C5_DatetimeUnique ==
    (applied >= 1 /\ out.ok) =>
        \A j, k \in 1..Len(out.table.rows) :
            j # k => out.table.rows[j].key # out.table.rows[k].key

\* the index is derived, row by row, from DATE and column c
DerivedFrom(c) ==
    /\ out.ok
    /\ Len(out.table.rows) = Len(df.rows)
    /\ \A j \in 1..Len(df.rows) :
          out.table.rows[j].key = Stamp(df.rows[j].cells["DATE"].v, df.rows[j].cells[c])

\* the index is derived, row by row, from DATE and SEQ_NR - 1 as the hour
DerivedFromSeqNr ==
    /\ out.ok
    /\ Len(out.table.rows) = Len(df.rows)
    /\ \A j \in 1..Len(df.rows) :
          out.table.rows[j].key =
              Stamp(df.rows[j].cells["DATE"].v, <<df.rows[j].cells["SEQ_NR"] - 1, 0>>)

\* C6 (as claimed): a table with at least one PERIOD_FROM/PERIODE_VAN
\* column gets DATETIME from DATE and such a column, however many there
\* are and whatever other columns there are; failing that, a TIME column
\* wins over SEQ_NR and PTU, and SEQ_NR wins over PTU.
C6_FirstMatchWins ==
    applied = 1 =>
        /\ from_cols(df) # {} => \E c \in from_cols(df) : DerivedFrom(c)
        /\ (from_cols(df) = {} /\ time_col(df) # {}) =>
              \E c \in time_col(df) : DerivedFrom(c)
        /\ (from_cols(df) = {} /\ time_col(df) = {} /\ "SEQ_NR" \in df.columns) =>
              DerivedFromSeqNr

\* the table has one of the four conventions
Recognised(t) ==
    \/ from_cols(t) # {}
    \/ time_col(t) # {}
    \/ "SEQ_NR" \in t.columns
    \/ "PTU" \in t.columns

\* C8 (as claimed): assign_date_column ends in the schema error exactly
\* when the table has none of the four conventions.
C8_SchemaErrorIffUnrecognised ==
    applied = 1 => ((~out.ok /\ out.error = "AttributeError") <=> ~Recognised(df))

RECURSIVE KeptPtuRows(_)
\* the input rows whose PTU // 4 is not 25, in their order
KeptPtuRows(rows) ==
    IF rows = <<>> THEN <<>>
    ELSE (IF Head(rows).cells["PTU"] \div 4 # 25 THEN <<Head(rows)>> ELSE <<>>)
         \o KeptPtuRows(Tail(rows))

\* the hour and the minute the claim gives PTU p
ClaimedHour(p) == IF p \div 4 = 24 THEN 0 ELSE p \div 4
ClaimedMinute(p) == (p % 4) * 15

\* C9 (as claimed): in the PTU fallback no error is reported, the rows with
\* PTU // 4 = 25 are absent, and every other row is present once, in its
\* place, with the timestamp of its own DATE at hour PTU // 4 (24 read as
\* 0) and minute (PTU % 4) * 15.
C9_PtuRowsKeepLocalTime ==
    applied = 1 =>
        /\ out.ok
        /\ Len(out.table.rows) = Len(KeptPtuRows(df.rows))
        /\ \A j \in 1..Len(out.table.rows) :
              LET r == KeptPtuRows(df.rows)[j]
              IN /\ ~out.table.rows[j].key.nat
                 /\ Wall(out.table.rows[j].key) =
                        Ordinal(r.cells["DATE"].v) * 1440
                        + ClaimedHour(r.cells["PTU"]) * 60
                        + ClaimedMinute(r.cells["PTU"])

\* C9 (amended): for PTU values 1..103 no error is reported, the rows
\* with PTU // 4 = 25 are absent, and every other row is present once, in
\* its place, with the CET localization of its own DATE at hour PTU // 4
\* (24 read as 0) and minute (PTU % 4) * 15: that local time, except that
\* an hour 2 of the day the clock goes forward becomes 03:00 and an hour 2
\* of the day the clock goes back becomes the null marker.
C9_PtuRowsLocalized ==
    (applied = 1 /\ \A j \in 1..Len(df.rows) : df.rows[j].cells["PTU"] < 104) =>
        /\ out.ok
        /\ Len(out.table.rows) = Len(KeptPtuRows(df.rows))
        /\ \A j \in 1..Len(out.table.rows) :
              LET r    == KeptPtuRows(df.rows)[j]
                  ymd  == r.cells["DATE"].v
                  h    == ClaimedHour(r.cells["PTU"])
                  m    == ClaimedMinute(r.cells["PTU"])
                  key  == out.table.rows[j].key
              IN IF ymd = <<2023, 10, 29>> /\ h = 2 THEN key.nat
                 ELSE /\ ~key.nat
                      /\ Wall(key) = Ordinal(ymd) * 1440
                                      + (IF ymd = <<2023, 3, 26>> /\ h = 2
                                         THEN 180 ELSE h * 60 + m)

\* C9's case: a row with PTU 100 was dropped and a row with PTU 96 kept
C9_Witness ==
    /\ applied = 1
    /\ out.ok
    /\ Len(df.rows) = 2
    /\ df.rows[1].cells["PTU"] = 100
    /\ df.rows[2].cells["PTU"] = 96
    /\ Len(out.table.rows) = 1
    /\ Wall(out.table.rows[1].key) = Ordinal(df.rows[2].cells["DATE"].v) * 1440

\* C10: when assign_date_column succeeds on a table, it succeeds on the
\* table it returned, takes the same branch, and gives the same rows the
\* same DATETIME values.
C10_Idempotent ==
    (applied = 2 /\ prev.ok) =>
        /\ out.ok
        /\ Convention(convert_date(prev.table)) = Convention(convert_date(df))
        /\ Keys(out.table) = Keys(prev.table)

\* C10's case: a second application to a table with a null marker in its
\* index
C10_Witness ==
    /\ applied = 2
    /\ prev.ok
    /\ out.ok
    /\ \E j \in 1..Len(prev.table.rows) : prev.table.rows[j].key.nat

============================================================================
